---- MODULE Spec2Model ----
(***************************************************************************)
(* Model of intern/cycles/blender/blender_object.cpp: the object sync      *)
(* driver (BlenderSync::sync_object), the scene pass driver                *)
(* (BlenderSync::sync_objects) and the motion pass driver                  *)
(* (BlenderSync::sync_motion), together with the collaborators they call   *)
(* (identity maps, geometry sync, the geometry task pool).                 *)
(*                                                                         *)
(* Relative motion times are the floats -1, -0.5, 0, 0.5, 1; they are      *)
(* represented in halves by the integers -2 .. 2, so that 0.0f is 0.       *)
(***************************************************************************)
EXTENDS Integers, Sequences, FiniteSets, TLC

\* -------------------------------------------------------------- bounds
\* Number of top-level syncs (sync_data calls) of one session that are explored.
MaxSyncs == 2
MaxAttrs == 2

\* ----------------------------------------------------- the host's scene
\* PATH_RAY_ALL_VISIBILITY as a set of ray kinds; & is intersection.
PATH_RAY_CAMERA == "CAMERA"
PATH_RAY_ALL_VISIBILITY == {"CAMERA", "DIFFUSE", "GLOSSY", "SHADOW"}

NULL == "NULL"

\* One BL::DepsgraphObjectInstance as the host evaluates it: the object with
\* the properties sync_object reads from it, and the instancing data.
MeshInstance(ob) ==
  [ob |-> ob, is_instance |-> FALSE, instance_parent |-> NULL, persistent_id |-> 0,
   instance_object |-> NULL, type |-> "MESH", data |-> "D", is_modified |-> FALSE,
   show_self |-> TRUE, show_particles |-> FALSE, has_particle_hair |-> FALSE,
   visible_in_viewport |-> TRUE, culled |-> "never",
   ray_visibility |-> PATH_RAY_ALL_VISIBILITY,
   parent_ray_visibility |-> PATH_RAY_ALL_VISIBILITY,
   is_holdout |-> FALSE, parent_holdout |-> FALSE, parent_indirect_only |-> FALSE,
   cache_file |-> NULL, moving |-> TRUE, motion_steps |-> 3, pass_index |-> 0,
   use_deform_motion |-> TRUE, has_particle_system |-> FALSE,
   needed_attributes |-> <<>>, props |-> <<>>]

\* Two plain mesh objects sharing one mesh datablock "D".
iB == MeshInstance("B")
iC == [MeshInstance("C") EXCEPT !.moving = FALSE, !.pass_index = 1,
                               !.use_deform_motion = FALSE,
                               !.needed_attributes = <<"col">>, !.props = <<7>>]
\* B and C in other states of the scene: culled, invisible to every ray,
\* indirect only, hidden in the viewport.
iB_culled == [iB EXCEPT !.culled = "always"]
\* B moving into view: culled at the centre time only.
iB_culled_at_center == [iB EXCEPT !.culled = "at_center"]
iB_invisible == [iB EXCEPT !.ray_visibility = {}]
iC_hidden == [iC EXCEPT !.visible_in_viewport = FALSE]
iB_indirect == [iB EXCEPT !.parent_indirect_only = TRUE]
\* A: a modified mesh object (it has modifiers) with a hair particle system.
iA == [MeshInstance("A") EXCEPT !.is_modified = TRUE, !.data = "DA",
                               !.show_particles = TRUE, !.has_particle_hair = TRUE,
                               !.motion_steps = 5]
\* A without its particles shown.
iA_plain == [iA EXCEPT !.show_particles = FALSE]
\* P: an empty that instances A.
iP == [MeshInstance("P") EXCEPT !.type = "EMPTY", !.data = NULL]
\* An instance of A made by P, with persistent id n.
Dupli(n) ==
  [iA EXCEPT !.is_instance = TRUE, !.instance_parent = "P", !.persistent_id = n,
             !.instance_object = "A", !.show_particles = FALSE,
             !.parent_ray_visibility = PATH_RAY_ALL_VISIBILITY]
\* An instance of A with A's hair particles shown on it.
DupliHair(n) == [Dupli(n) EXCEPT !.show_particles = TRUE, !.has_particle_system = TRUE]
\* A light, and a mesh read from an Alembic cache file.
iL == [MeshInstance("L") EXCEPT !.type = "LIGHT", !.data = "DL"]
iX == [MeshInstance("X") EXCEPT !.cache_file = "F", !.data = "DX"]
\* Another mesh read from the same cache file, at another object path.
iY == [MeshInstance("Y") EXCEPT !.cache_file = "F", !.data = "DY"]
\* The light out of the camera's view and invisible to every ray.
iL_far == [iL EXCEPT !.culled = "always", !.ray_visibility = {}]

\* The scenes the host hands over: the depsgraph's object instances in
\* iteration order, the scene's motion setting and the viewport's lights.
Scene(insts, motion, lights, cam_steps, cam_position) ==
  [object_instances |-> insts, need_motion |-> motion, use_scene_lights |-> lights,
   camera_motion_steps |-> cam_steps, motion_position |-> cam_position]

Scenes ==
  { Scene(<<iB, iC, iL_far>>, "MOTION_BLUR", TRUE, 3, "START"),
    Scene(<<iA, iP, Dupli(1), Dupli(2)>>, "MOTION_NONE", TRUE, 0, "CENTER"),
    Scene(<<iA_plain, Dupli(1)>>, "MOTION_BLUR", TRUE, 5, "CENTER"),
    Scene(<<iB_culled, iC, iX, iY>>, "MOTION_NONE", FALSE, 0, "CENTER"),
    Scene(<<iB_invisible, iL, iC_hidden>>, "MOTION_NONE", FALSE, 0, "CENTER"),
    Scene(<<iC, iB_indirect>>, "MOTION_NONE", TRUE, 0, "CENTER"),
    Scene(<<iB, Dupli(1), DupliHair(2)>>, "MOTION_BLUR", TRUE, 0, "CENTER"),
    Scene(<<iB_culled_at_center, iC, iX>>, "MOTION_BLUR", TRUE, 5, "CENTER"),
    Scene(<<iB, iL>>, "MOTION_NONE", TRUE, 0, "CENTER") }

NoScene == Scene(<<>>, "MOTION_NONE", TRUE, 0, "CENTER")

\* ------------------------------------------------------------ utilities
object_is_light(b_ob) == b_ob.data # NULL /\ b_ob.type = "LIGHT"

object_is_geometry(b_ob) ==
  IF b_ob.data = NULL THEN FALSE
  ELSE b_ob.type \in {"VOLUME", "HAIR", "MESH", "CURVE", "META"}

\* b_parent and b_ob_instance as sync_object derives them.
BParent(b_instance) ==
  IF b_instance.is_instance THEN b_instance.instance_parent ELSE b_instance.ob

BObInstance(b_instance) ==
  IF b_instance.is_instance THEN b_instance.instance_object ELSE b_instance.ob

\* persistent_id: the instance's array, or -1 for the NULL pointer.
PersistentId(b_instance) ==
  IF b_instance.is_instance THEN b_instance.persistent_id ELSE -1

\* get_transform(b_ob.matrix_world()) at the host's current time.
get_transform(b_instance, time) ==
  IF b_instance.moving
    THEN <<b_instance.ob, b_instance.persistent_id, time>>
    ELSE <<b_instance.ob, b_instance.persistent_id, 0>>

transform_empty == <<"EMPTY", 0, 0>>

UseHoldout(b_instance) == b_instance.is_holdout \/ b_instance.parent_holdout

UseIndirectOnly(b_instance) == ~UseHoldout(b_instance) /\ b_instance.parent_indirect_only

Visibility_AlwaysParent(b_instance) ==
  LET v0 == b_instance.ray_visibility \cap PATH_RAY_ALL_VISIBILITY
      v1 == v0 \cap b_instance.parent_ray_visibility
  IN IF UseIndirectOnly(b_instance) THEN v1 \ {PATH_RAY_CAMERA} ELSE v1

Visibility(b_instance) ==
  LET v0 == b_instance.ray_visibility \cap PATH_RAY_ALL_VISIBILITY
      v1 == IF BParent(b_instance) # b_instance.ob
              THEN v0 \cap b_instance.parent_ray_visibility ELSE v0
  IN IF UseIndirectOnly(b_instance) THEN v1 \ {PATH_RAY_CAMERA} ELSE v1

\* ObjectKey key(b_parent, persistent_id, b_ob_instance, use_particle_hair)
ObjectKey_NoVariant(b_instance, use_particle_hair) ==
  <<BParent(b_instance), PersistentId(b_instance), BObInstance(b_instance), FALSE>>

ObjectKey(b_instance, use_particle_hair) ==
  <<BParent(b_instance), PersistentId(b_instance), BObInstance(b_instance),
    use_particle_hair>>

\* TaskPool *object_geom_task_pool = (is_instance) ? NULL : geom_task_pool;
\* a pool argument is TRUE for &geom_task_pool and FALSE for NULL.
ObjectGeomTaskPool_Always(b_instance, geom_task_pool) == geom_task_pool

ObjectGeomTaskPool(b_instance, geom_task_pool) ==
  IF b_instance.is_instance THEN FALSE ELSE geom_task_pool

\* culling.test(scene, b_ob, tfm) for the transform at the host's time
CullingTest(b_instance, time) ==
  b_instance.culled = "always" \/ (b_instance.culled = "at_center" /\ time = 0)

\* The first outcome of sync_object's decision chain that applies.
SyncObjectState_CullFirst(b_instance, motion, show_lights, time) ==
  IF CullingTest(b_instance, time) THEN "Skip"
  ELSE IF ~motion /\ object_is_light(b_instance)
    THEN (IF show_lights THEN "LightSync" ELSE "Skip")
  ELSE IF ~object_is_geometry(b_instance) THEN "Skip"
  ELSE IF Visibility(b_instance) = {} THEN "Skip"
  ELSE IF motion THEN "MotionUpdate"
  ELSE "FullSync"

SyncObjectState(b_instance, motion, show_lights, time) ==
  IF ~motion /\ object_is_light(b_instance)
    THEN (IF show_lights THEN "LightSync" ELSE "Skip")
  ELSE IF ~object_is_geometry(b_instance) THEN "Skip"
  ELSE IF CullingTest(b_instance, time) THEN "Skip"
  ELSE IF Visibility(b_instance) = {} THEN "Skip"
  ELSE IF motion THEN "MotionUpdate"
  ELSE "FullSync"
\* ---------------------------------------------------------------- state
VARIABLES
  scene,            \* the host scene of the running sync (b_depsgraph, b_v3d, b_scene)
  b_recalc,         \* the host tagged the scene's datablocks as changed
  b_time,           \* the host's current time, set by b_engine.frame_set
  nsync,            \* top-level syncs started so far
  pc,               \* where the driving thread is
  caller,           \* who called the running sync_objects pass
  motion_time,      \* sync_objects' motion_time argument
  iter,             \* b_instance_iter, an index into scene.object_instances
  cancel,           \* sync_objects' local cancel
  cancel_flag,      \* progress.get_cancel()
  geom_task_pool,   \* tasks pushed to the pool and not yet completed
  inline,           \* the conversion the driving thread is running itself
  ctx,              \* the sync_object call suspended in an inline conversion
  object_map,       \* object_map's entries: <<key, Object>> pairs
  object_used,      \* object_map's used set
  objects,          \* the render scene's Objects
  light_map,        \* the other identity maps: [keys, used]
  geometry_map,
  procedural_map,
  particle_system_map,
  procedurals,      \* the AlembicProcedural of each cache file
  geoms,            \* the render scene's Geometry nodes
  geometry_synced,
  geometry_motion_synced,
  motion_times,
  motion_todo,      \* what is left of sync_motion's iteration of motion_times
  ran,              \* history: the motion_time of each motion sub-pass of this sync
  aou_log,          \* history: object_map.add_or_update calls of the running base pass
  prev_log,         \* history: those of the base pass before it
  bg_light_synced,  \* history: sync_background_light ran in this pass
  swept,            \* history: the post_sync sweeps ran in this pass
  pushed,           \* history: tasks pushed to the pool in this pass
  base_cancelled    \* history: the last base pass was cancelled

vars == <<scene, b_recalc, b_time, nsync, pc, caller, motion_time, iter, cancel,
          cancel_flag, geom_task_pool, inline, ctx, object_map, object_used, objects,
          light_map, geometry_map, procedural_map, particle_system_map, procedurals,
          geoms, geometry_synced, geometry_motion_synced, motion_times, motion_todo, ran,
          aou_log, prev_log, bg_light_synced, swept, pushed, base_cancelled>>

NoGeometry == <<NULL, FALSE>>
NoTask == [target |-> NoGeometry, source |-> NULL, is_instance |-> FALSE,
           hair |-> FALSE, motion |-> FALSE]
NoLog == [scene |-> NoScene, time |-> 0, calls |-> <<>>, cancelled |-> FALSE]
NoCtx == [kind |-> "none", inst |-> 0, hair |-> FALSE, object |-> 0,
          object_updated |-> FALSE]

\* ------------------------------------------------- identity maps (id_map)
EmptyMap == [keys |-> {}, used |-> {}]

\* id_map::pre_sync: every entry is "not yet seen this pass".
pre_sync(map) == [map EXCEPT !.used = {}]

\* id_map::add_or_update / add / used on a map whose entities carry no state here.
map_add(map, key) == [keys |-> map.keys \cup {key}, used |-> map.used \cup {key}]

\* id_map::post_sync: every entry not seen is deleted.
post_sync(map) == [map EXCEPT !.keys = map.keys \cap map.used]

\* object_map.find(key): the Object of the key, 0 when there is none.
object_find(omap, key) ==
  IF \E p \in omap : p[1] = key THEN (CHOOSE p \in omap : p[1] = key)[2] ELSE 0

\* scene->create_node<Object>(): a node distinct from every live one.
create_node(objs) ==
  CHOOSE i \in 1..(Cardinality(DOMAIN objs) + 1) :
    i \notin DOMAIN objs /\ \A j \in 1..(i - 1) : j \in DOMAIN objs

NewObject ==
  [geometry |-> NoGeometry, tfm |-> transform_empty, visibility |-> PATH_RAY_ALL_VISIBILITY,
   use_holdout |-> FALSE, pass_id |-> 0, attributes |-> <<>>, motion |-> <<>>,
   name |-> NULL, is_modified |-> FALSE]

\* object_map.add_or_update(&object, b_ob, b_parent, key)
object_add_or_update(omap, used, objs, key) ==
  LET found == object_find(omap, key)
      object == IF found = 0 THEN create_node(objs) ELSE found
  IN [object |-> object,
      recalc |-> found = 0,
      object_map |-> IF found = 0 THEN omap \cup {<<key, object>>} ELSE omap,
      object_used |-> used \cup {object},
      objects |-> IF found = 0 THEN (object :> NewObject) @@ objs ELSE objs]

\* object_map.post_sync(): the Objects not seen leave the map and the scene.
object_post_sync_map(omap, used) == {p \in omap : p[2] \in used}

object_post_sync_nodes(objs, used) == [o \in (DOMAIN objs \cap used) |-> objs[o]]

ObjectKeys(omap) == {p[1] : p \in omap}

\* ------------------------------------------------------- Object, Geometry
\* Object::use_motion, Object::motion_time(step), Object::motion_step(time)
use_motion(object) == Len(object.motion) > 0

MotionTimeOf(n, step) == (4 * step) \div (n - 1) - 2

MotionStepOf(n, time) ==
  IF n > 0 /\ \E s \in 0..(n - 1) : MotionTimeOf(n, s) = time
    THEN CHOOSE s \in 0..(n - 1) : MotionTimeOf(n, s) = time
    ELSE -1

object_motion_step(object, time) == MotionStepOf(Len(object.motion), time)

NewGeometry == [motion_steps |-> 0, use_motion_blur |-> FALSE, is_modified |-> FALSE]

\* Geometry::motion_step(time)
geometry_motion_step(geom, time) ==
  IF geom.use_motion_blur THEN MotionStepOf(geom.motion_steps, time) ELSE -1

\* GeometryKey key(b_key_id, use_particle_hair) of sync_geometry
GeometryKey(b_instance, use_particle_hair) ==
  <<IF b_instance.is_modified THEN BObInstance(b_instance) ELSE b_instance.data,
    use_particle_hair>>

Task(b_instance, target, use_particle_hair, motion) ==
  [target |-> target, source |-> BObInstance(b_instance),
   is_instance |-> b_instance.is_instance, hair |-> use_particle_hair,
   motion |-> motion]
\* A Node socket setter: the node is modified when the value changes.
SetSocket(node, socket, value) ==
  [node EXCEPT ![socket] = value, !.is_modified = @ \/ node[socket] # value]

\* sync_geometry(b_depsgraph, b_ob_instance, b_ob_instance, object_updated,
\* use_particle_hair, task_pool): the Geometry of the source data, converted at
\* most once per sync; task is the conversion it starts, NoTask when none.
sync_geometry(gmap, gsynced, gms, recalc, b_instance, use_particle_hair) ==
  LET key == GeometryKey(b_instance, use_particle_hair)
      is_new == key \notin gmap.keys
      convert == key \notin gsynced /\ (is_new \/ recalc)
  IN [geometry |-> key,
      geometry_map |-> map_add(gmap, key),
      geoms |-> IF is_new THEN (key :> NewGeometry) @@ gms ELSE gms,
      geometry_synced |-> IF convert THEN gsynced \cup {key} ELSE gsynced,
      task |-> IF convert THEN Task(b_instance, key, use_particle_hair, FALSE)
                          ELSE NoTask]

\* sync_geometry_motion(b_depsgraph, b_ob_instance, object, motion_time,
\* use_particle_hair, task_pool)
sync_geometry_motion(gmsynced, gms, b_instance, object, time, use_particle_hair) ==
  LET geom == object.geometry
      convert == geom \notin gmsynced /\ geometry_motion_step(gms[geom], time) >= 0
  IN [geometry_motion_synced |-> gmsynced \cup {geom},
      task |-> IF convert THEN Task(b_instance, geom, use_particle_hair, TRUE)
                          ELSE NoTask]

\* What a conversion leaves in the Geometry it fills.
Converted(gms, task) ==
  IF task.target \in DOMAIN gms
    THEN [gms EXCEPT ![task.target].is_modified = TRUE] ELSE gms

\* sync_object_attributes(b_instance, object): the reconciled attribute
\* vector and whether anything changed.  An attribute is <<name, value>>.
RECURSIVE EraseUnneeded(_, _)
EraseUnneeded(attributes, names) ==
  IF attributes = <<>> THEN <<>>
  ELSE IF Head(attributes)[1] \in names
    THEN <<Head(attributes)>> \o EraseUnneeded(Tail(attributes), names)
    ELSE EraseUnneeded(Tail(attributes), names)

\* blender_attribute_name_split_type: the kind the name's prefix stands for.
AttributeType(name) ==
  CASE name = "uv" -> "GEOMETRY"
    [] name = "inst" -> "INSTANCER"
    [] OTHER -> "OBJECT"

RECURSIVE UpdateValues(_, _, _, _)
UpdateValues(attributes, changed, names, values) ==
  IF names = <<>> THEN [changed |-> changed, attributes |-> attributes]
  ELSE IF AttributeType(Head(names)) = "GEOMETRY"
    THEN UpdateValues(attributes, changed, Tail(names), Tail(values))
  ELSE LET name == Head(names)
           value == Head(values)
           found == {i \in 1..Len(attributes) : attributes[i][1] = name}
       IN IF found = {}
            THEN UpdateValues(Append(attributes, <<name, value>>), TRUE,
                              Tail(names), Tail(values))
          ELSE LET i == CHOOSE j \in found : \A k \in found : j <= k
               IN IF attributes[i][2] # value
                    THEN UpdateValues([attributes EXCEPT ![i] = <<name, value>>], TRUE,
                                      Tail(names), Tail(values))
                    ELSE UpdateValues(attributes, changed, Tail(names), Tail(values))

sync_object_attributes_NoErase(b_instance, attributes) ==
  UpdateValues(attributes, FALSE, b_instance.needed_attributes, b_instance.props)

sync_object_attributes(b_instance, attributes) ==
  LET requests == b_instance.needed_attributes
      names == {requests[i] : i \in 1..Len(requests)}
      kept == EraseUnneeded(attributes, names)
  IN UpdateValues(kept, Len(kept) # Len(attributes), requests, b_instance.props)

\* The motion array of a changed Object: motion_steps empty transforms with the
\* base transform in the centre slot.
MotionArray_FirstSlot(motion_steps, tfm) ==
  [s \in 1..motion_steps |-> IF s = 1 THEN tfm ELSE transform_empty]

MotionArray(motion_steps, tfm) ==
  [s \in 1..motion_steps |-> IF s = (motion_steps \div 2) + 1 THEN tfm ELSE transform_empty]

\* motion_steps as sync_object computes it for the scene's motion type.
ObjectMotionSteps(need_motion, b_instance) ==
  IF need_motion = "MOTION_BLUR" THEN b_instance.motion_steps ELSE 3

\* Lines 274-277: if (object->is_modified() || object_updated ||
\* (object->get_geometry() && object->get_geometry()->is_modified()) ||
\* tfm != object->get_tfm())
ObjectChanged_NoTfm(is_modified, object_updated, geometry_is_modified, tfm_differs) ==
  is_modified \/ object_updated \/ geometry_is_modified

ObjectChanged(is_modified, object_updated, geometry_is_modified, tfm_differs) ==
  is_modified \/ object_updated \/ geometry_is_modified \/ tfm_differs

\* sync_object from "test if we need to sync" on, after sync_geometry has
\* returned geometry: the Object of the instance with its fields set.
FullSyncObject(obj, gms, need_motion, tfm, b_instance, geometry, object_updated0) ==
  LET o1 == SetSocket(obj, "geometry", geometry)
      att == sync_object_attributes(b_instance, o1.attributes)
      o2 == [o1 EXCEPT !.attributes = att.attributes]
      object_updated == object_updated0 \/ att.changed
      o3 == SetSocket(o2, "use_holdout", UseHoldout(b_instance))
      o4 == SetSocket(o3, "visibility", Visibility(b_instance))
      changed == ObjectChanged(o4.is_modified, object_updated,
                               gms[geometry].is_modified, tfm # o4.tfm)
      motion_steps == IF need_motion # "MOTION_NONE"
                        THEN ObjectMotionSteps(need_motion, b_instance) ELSE 0
      o5 == [o4 EXCEPT !.name = b_instance.ob]
      o6 == SetSocket(o5, "pass_id", b_instance.pass_index)
      o7 == SetSocket(o6, "tfm", tfm)
      o8 == SetSocket(o7, "motion", <<>>)
      o9 == IF motion_steps > 0
              THEN SetSocket(o8, "motion", MotionArray(motion_steps, tfm)) ELSE o8
      g0 == gms[geometry]
      g1 == SetSocket(SetSocket(g0, "use_motion_blur", FALSE), "motion_steps", 0)
      g2 == SetSocket(g1, "motion_steps", motion_steps)
      g3 == IF need_motion = "MOTION_BLUR" /\ motion_steps > 0
               /\ b_instance.use_deform_motion
              THEN SetSocket(g2, "use_motion_blur", TRUE) ELSE g2
  IN [changed |-> changed,
      object |-> IF changed THEN o9 ELSE o4,
      geom |-> IF changed /\ need_motion # "MOTION_NONE" THEN g3 ELSE g0,
      times |-> IF changed
                  THEN {MotionTimeOf(motion_steps, s) : s \in 0..(motion_steps - 1)}
                  ELSE {}]

\* sync_object's motion vector case on the Object found for the key: the
\* transform goes to the motion slot of the matching time step.
MotionUpdateObject_AlsoTfm(obj, tfm, time) ==
  LET time_index == object_motion_step(obj, time)
  IN IF use_motion(obj) /\ time_index >= 0
       THEN SetSocket(SetSocket(obj, "motion", [obj.motion EXCEPT ![time_index + 1] = tfm]),
                      "tfm", tfm)
       ELSE obj

MotionUpdateObject(obj, tfm, time) ==
  LET time_index == object_motion_step(obj, time)
  IN IF use_motion(obj) /\ time_index >= 0
       THEN SetSocket(obj, "motion", [obj.motion EXCEPT ![time_index + 1] = tfm])
       ELSE obj
\* ------------------------------------------------------------- sync_object
\* The state sync_object reads and writes, as one record.
Cur ==
  [object_map |-> object_map, object_used |-> object_used, objects |-> objects,
   light_map |-> light_map, geometry_map |-> geometry_map, geoms |-> geoms,
   geometry_synced |-> geometry_synced,
   geometry_motion_synced |-> geometry_motion_synced,
   motion_times |-> motion_times, particle_system_map |-> particle_system_map,
   geom_task_pool |-> geom_task_pool, inline |-> inline, ctx |-> ctx,
   aou_log |-> aou_log, pushed |-> pushed]

\* A conversion starts: pushed to the pool, or run by the caller, which is then
\* inside it until InlineEnd.
StartTask(st, task, use_pool, suspended) ==
  IF task = NoTask THEN st
  ELSE IF use_pool THEN [st EXCEPT !.geom_task_pool = Append(@, task), !.pushed = @ + 1]
  ELSE [st EXCEPT !.inline = task, !.ctx = suspended]

\* sync_light through light_map
LightSync(st, b_instance) ==
  [st EXCEPT !.light_map = map_add(@, ObjectKey(b_instance, FALSE))]

\* Line 198: object = object_map.find(key); the lookup leaves the map as it is.
MotionLookup_AddOrUpdate(st, key) ==
  LET a == object_add_or_update(st.object_map, st.object_used, st.objects, key)
  IN [object |-> a.object,
      st |-> [st EXCEPT !.object_map = a.object_map, !.object_used = a.object_used,
                        !.objects = a.objects]]

MotionLookup(st, key) == [object |-> object_find(st.object_map, key), st |-> st]

\* Lines 196-220: the motion vector case.
MotionUpdate(st, b_instance, use_particle_hair, object_geom_task_pool) ==
  LET key == ObjectKey(b_instance, use_particle_hair)
      found == MotionLookup(st, key)
      object == found.object
      st0 == found.st
  IN IF object # 0 /\ use_motion(st0.objects[object])
       THEN LET o1 == MotionUpdateObject(st0.objects[object],
                                         get_transform(b_instance, b_time), motion_time)
                st1 == [st0 EXCEPT !.objects = [@ EXCEPT ![object] = o1]]
            IN IF o1.geometry # NoGeometry
                 THEN LET r == sync_geometry_motion(st0.geometry_motion_synced, st0.geoms,
                                                    b_instance, o1, motion_time,
                                                    use_particle_hair)
                      IN StartTask([st1 EXCEPT !.geometry_motion_synced =
                                                  r.geometry_motion_synced],
                                   r.task, object_geom_task_pool,
                                   [NoCtx EXCEPT !.kind = "motion"])
                 ELSE st1
       ELSE st0

\* Lines 222-226: bool object_updated = false; if (add_or_update(...)) object_updated = true;
ObjectUpdated_InitTrue(recalc) == TRUE

ObjectUpdated(recalc) == recalc

\* Lines 238-343: the rest of a full sync once sync_geometry has returned.
FullSyncEnd(st, b_instance, use_particle_hair, object, object_updated) ==
  LET geometry == GeometryKey(b_instance, use_particle_hair)
      r == FullSyncObject(st.objects[object], st.geoms, scene.need_motion,
                          get_transform(b_instance, b_time), b_instance, geometry,
                          object_updated)
  IN [st EXCEPT !.objects = [@ EXCEPT ![object] = r.object],
                !.geoms = [@ EXCEPT ![geometry] = r.geom],
                !.motion_times = @ \cup r.times,
                !.aou_log = [@ EXCEPT !.calls[Len(@.calls)].changed = r.changed],
                !.particle_system_map =
                   IF b_instance.is_instance /\ b_instance.has_particle_system
                     THEN map_add(@, BParent(b_instance)) ELSE @]

\* Lines 222-343: a full sync.  When sync_geometry starts a conversion the call
\* is suspended at its return: the conversion runs on the caller, or runs in the
\* pool while the caller goes on to read the Geometry's modified flag (line 276).
FullSync(st, i, b_instance, use_particle_hair, object_geom_task_pool) ==
  LET key == ObjectKey(b_instance, use_particle_hair)
      a == object_add_or_update(st.object_map, st.object_used, st.objects, key)
      object_updated == ObjectUpdated(a.recalc)
      g == sync_geometry(st.geometry_map, st.geometry_synced, st.geoms, b_recalc,
                         b_instance, use_particle_hair)
      call == [ident |-> <<BParent(b_instance), PersistentId(b_instance),
                           BObInstance(b_instance), use_particle_hair>>,
               key |-> key, object |-> a.object, object_updated |-> object_updated,
               changed |-> FALSE]
      st1 == [st EXCEPT !.object_map = a.object_map, !.object_used = a.object_used,
                        !.objects = a.objects, !.geometry_map = g.geometry_map,
                        !.geoms = g.geoms, !.geometry_synced = g.geometry_synced,
                        !.aou_log = [@ EXCEPT !.calls = Append(@, call)]]
      suspended == [kind |-> "full", inst |-> i, hair |-> use_particle_hair,
                    object |-> a.object, object_updated |-> object_updated]
      st2 == StartTask(st1, g.task, object_geom_task_pool, suspended)
  IN IF g.task # NoTask THEN [st2 EXCEPT !.ctx = suspended]
     ELSE FullSyncEnd(st2, b_instance, use_particle_hair, a.object, object_updated)

\* sync_object(b_depsgraph, b_view_layer, b_instance, motion_time,
\*             use_particle_hair, show_lights, culling, &use_portal, geom_task_pool)
sync_object(st, i, b_instance, use_particle_hair, geom_task_pool_arg) ==
  LET state == SyncObjectState(b_instance, motion_time # 0, scene.use_scene_lights, b_time)
      object_geom_task_pool == ObjectGeomTaskPool(b_instance, geom_task_pool_arg)
  IN CASE state = "Skip" -> st
       [] state = "LightSync" -> LightSync(st, b_instance)
       [] state = "MotionUpdate" ->
            MotionUpdate(st, b_instance, use_particle_hair, object_geom_task_pool)
       [] state = "FullSync" ->
            FullSync(st, i, b_instance, use_particle_hair, object_geom_task_pool)

\* The state after sync_object's step is st.
Store(st) ==
  /\ object_map' = st.object_map
  /\ object_used' = st.object_used
  /\ objects' = st.objects
  /\ light_map' = st.light_map
  /\ geometry_map' = st.geometry_map
  /\ geoms' = st.geoms
  /\ geometry_synced' = st.geometry_synced
  /\ geometry_motion_synced' = st.geometry_motion_synced
  /\ motion_times' = st.motion_times
  /\ particle_system_map' = st.particle_system_map
  /\ geom_task_pool' = st.geom_task_pool
  /\ inline' = st.inline
  /\ ctx' = st.ctx
  /\ aou_log' = st.aou_log
  /\ pushed' = st.pushed

SyncObjectVars ==
  <<object_map, object_used, objects, light_map, geometry_map, geoms, geometry_synced,
    geometry_motion_synced, motion_times, particle_system_map, geom_task_pool, inline,
    ctx, aou_log, pushed>>
\* --------------------------------------------------------- sync_procedural
NewProcedural == [filepath |-> NULL, filepath_is_modified |-> FALSE, objects |-> <<>>]

\* sync_procedural(b_ob, b_mesh_cache, frame_current, motion_time), motion_time = 0;
\* the object path of a modifier is the name of its source object.
sync_procedural(pmap, procs, b_ob) ==
  LET cache_file_key == b_ob.cache_file
      p0 == IF cache_file_key \in pmap.keys THEN procs[cache_file_key] ELSE NewProcedural
      p1 == [p0 EXCEPT !.filepath = cache_file_key,
                       !.filepath_is_modified = @ \/ p0.filepath # cache_file_key]
      p2 == IF ~p1.filepath_is_modified THEN p1
            ELSE [p1 EXCEPT !.objects = Append(@, b_ob.ob)]
  IN [procedural_map |-> map_add(pmap, cache_file_key),
      procedurals |-> (cache_file_key :> p2) @@ procs]

\* ------------------------------------------------------------ sync_objects
Instances == scene.object_instances

Motion == motion_time # 0

\* frame_center_delta of sync_motion, in the unit of the relative times.
FrameCenterDelta(sc) ==
  IF sc.need_motion # "MOTION_PASS" /\ sc.motion_position # "CENTER"
    THEN (IF sc.motion_position = "END" THEN -2 ELSE 2)
    ELSE 0

Init ==
  /\ scene = NoScene
  /\ b_recalc = FALSE
  /\ b_time = 0
  /\ nsync = 0
  /\ pc = "idle"
  /\ caller = "none"
  /\ motion_time = 0
  /\ iter = 1
  /\ cancel = FALSE
  /\ cancel_flag = FALSE
  /\ geom_task_pool = <<>>
  /\ inline = NoTask
  /\ ctx = NoCtx
  /\ object_map = {}
  /\ object_used = {}
  /\ objects = <<>>
  /\ light_map = EmptyMap
  /\ geometry_map = EmptyMap
  /\ procedural_map = EmptyMap
  /\ particle_system_map = EmptyMap
  /\ procedurals = <<>>
  /\ geoms = <<>>
  /\ geometry_synced = {}
  /\ geometry_motion_synced = {}
  /\ motion_times = {}
  /\ motion_todo = {}
  /\ ran = <<>>
  /\ aou_log = NoLog
  /\ prev_log = NoLog
  /\ bg_light_synced = FALSE
  /\ swept = FALSE
  /\ pushed = 0
  /\ base_cancelled = FALSE

\* The caller of sync_objects and sync_motion (BlenderSync::sync_data): the host
\* hands over a scene, the render scene has consumed the modified flags of the
\* sync before, and the base pass is entered.
StartSync ==
  /\ pc = "idle"
  /\ nsync < MaxSyncs
  /\ \E sc \in Scenes :
       /\ scene' = sc
       /\ b_recalc' = (sc # scene)
  /\ nsync' = nsync + 1
  /\ cancel_flag' = FALSE
  /\ ran' = <<>>
  /\ geometry_synced' = {}
  /\ objects' = [o \in DOMAIN objects |-> [objects[o] EXCEPT !.is_modified = FALSE]]
  /\ geoms' = [g \in DOMAIN geoms |-> [geoms[g] EXCEPT !.is_modified = FALSE]]
  /\ procedurals' = [f \in DOMAIN procedurals |->
                       [procedurals[f] EXCEPT !.filepath_is_modified = FALSE]]
  /\ b_time' = 0
  /\ motion_time' = 0
  /\ caller' = "data"
  /\ pc' = "enter"
  /\ UNCHANGED <<iter, cancel, geom_task_pool, inline, ctx, object_map, object_used,
                 light_map, geometry_map, procedural_map, particle_system_map,
                 geometry_motion_synced, motion_times, motion_todo, aou_log, prev_log,
                 bg_light_synced, swept, pushed, base_cancelled>>

\* Lines 557-568: prepare for sync.
PreSync_NoObjectMap(motion) ==
  IF ~motion
    THEN [light_map |-> pre_sync(light_map), geometry_map |-> pre_sync(geometry_map),
          object_used |-> object_used, procedural_map |-> pre_sync(procedural_map),
          particle_system_map |-> pre_sync(particle_system_map), motion_times |-> {},
          geometry_motion_synced |-> geometry_motion_synced]
    ELSE [light_map |-> light_map, geometry_map |-> geometry_map,
          object_used |-> object_used, procedural_map |-> procedural_map,
          particle_system_map |-> particle_system_map, motion_times |-> motion_times,
          geometry_motion_synced |-> {}]

PreSync_KeepTimes(motion) ==
  IF ~motion
    THEN [light_map |-> pre_sync(light_map), geometry_map |-> pre_sync(geometry_map),
          object_used |-> {}, procedural_map |-> pre_sync(procedural_map),
          particle_system_map |-> pre_sync(particle_system_map),
          motion_times |-> motion_times,
          geometry_motion_synced |-> geometry_motion_synced]
    ELSE [light_map |-> light_map, geometry_map |-> geometry_map,
          object_used |-> object_used, procedural_map |-> procedural_map,
          particle_system_map |-> particle_system_map, motion_times |-> motion_times,
          geometry_motion_synced |-> {}]

PreSync(motion) ==
  IF ~motion
    THEN [light_map |-> pre_sync(light_map), geometry_map |-> pre_sync(geometry_map),
          object_used |-> {}, procedural_map |-> pre_sync(procedural_map),
          particle_system_map |-> pre_sync(particle_system_map), motion_times |-> {},
          geometry_motion_synced |-> geometry_motion_synced]
    ELSE [light_map |-> light_map, geometry_map |-> geometry_map,
          object_used |-> object_used, procedural_map |-> procedural_map,
          particle_system_map |-> particle_system_map, motion_times |-> motion_times,
          geometry_motion_synced |-> {}]

\* Lines 581-583: the object loop's condition, for the iterator at index i.
LoopContinues_IgnoreCancel(i, cancelled) == i <= Len(Instances)

LoopContinues(i, cancelled) == i <= Len(Instances) /\ ~cancelled

\* Lines 551-579: sync_objects up to its object loop.
SyncObjectsBegin ==
  /\ pc = "enter"
  /\ LET r == PreSync(Motion)
     IN /\ light_map' = r.light_map
        /\ geometry_map' = r.geometry_map
        /\ object_used' = r.object_used
        /\ procedural_map' = r.procedural_map
        /\ particle_system_map' = r.particle_system_map
        /\ motion_times' = r.motion_times
        /\ geometry_motion_synced' = r.geometry_motion_synced
  /\ cancel' = FALSE
  /\ iter' = 1
  /\ pc' = IF LoopContinues(1, FALSE) THEN "self" ELSE "wait"
  /\ IF ~Motion
       THEN /\ prev_log' = aou_log
            /\ aou_log' = [scene |-> scene, time |-> b_time, calls |-> <<>>,
                         cancelled |-> FALSE]
       ELSE UNCHANGED <<prev_log, aou_log>>
  /\ bg_light_synced' = FALSE
  /\ swept' = FALSE
  /\ pushed' = 0
  /\ UNCHANGED <<scene, b_recalc, b_time, nsync, caller, motion_time, cancel_flag,
                 geom_task_pool, inline, ctx, object_map, objects, procedurals, geoms,
                 geometry_synced, motion_todo, ran, base_cancelled>>

\* Line 634 and the loop's step: cancel = progress.get_cancel(); ++b_instance_iter
Poll ==
  \E c \in (IF cancel_flag THEN {TRUE} ELSE BOOLEAN) :
    /\ cancel_flag' = c
    /\ cancel' = c
    /\ iter' = iter + 1
    /\ pc' = IF LoopContinues(iter + 1, c) THEN "self" ELSE "wait"

\* Where the loop body goes on after a sync_object call has returned.
AfterCall(position) ==
  IF position = "self"
    THEN pc' = "hair" /\ UNCHANGED <<iter, cancel, cancel_flag>>
    ELSE Poll

\* After the step st of a sync_object call: inside the call at sync_geometry's
\* return, or past the call.
Proceed(st, position) ==
  /\ Store(st)
  /\ IF st.ctx # NoCtx
       THEN /\ pc' = (IF position = "self" THEN "self_geom" ELSE "hair_geom")
            /\ UNCHANGED <<iter, cancel, cancel_flag>>
       ELSE AfterCall(position)

SyncHair(b_instance) == b_instance.show_particles /\ b_instance.has_particle_hair

\* Line 617: sync_hair ? NULL : &geom_task_pool, the pool argument of the
\* "Object itself" call.
SelfTaskPool_Always(sync_hair) == TRUE

SelfTaskPool(sync_hair) == IF sync_hair THEN FALSE ELSE TRUE

DriverFrame ==
  <<scene, b_recalc, b_time, nsync, caller, motion_time, motion_todo, ran, prev_log,
    bg_light_synced, swept, base_cancelled>>

\* Lines 584-619: one instance of the loop, up to the end of "Object itself".
IterSelf ==
  /\ pc = "self"
  /\ LET b_instance == Instances[iter]
     IN IF ~b_instance.visible_in_viewport
          THEN /\ iter' = iter + 1
               /\ pc' = IF LoopContinues(iter + 1, cancel) THEN "self" ELSE "wait"
               /\ UNCHANGED <<cancel, cancel_flag, procedural_map, procedurals>>
               /\ UNCHANGED SyncObjectVars
        ELSE IF b_instance.show_self /\ b_instance.cache_file # NULL
          THEN /\ IF Motion
                    THEN UNCHANGED <<procedural_map, procedurals>>
                    ELSE LET r == sync_procedural(procedural_map, procedurals, b_instance)
                         IN /\ procedural_map' = r.procedural_map
                            /\ procedurals' = r.procedurals
               /\ pc' = "hair"
               /\ UNCHANGED <<iter, cancel, cancel_flag>>
               /\ UNCHANGED SyncObjectVars
        ELSE IF b_instance.show_self
          THEN /\ Proceed(sync_object(Cur, iter, b_instance, FALSE,
                                      SelfTaskPool(SyncHair(b_instance))),
                          "self")
               /\ UNCHANGED <<procedural_map, procedurals>>
        ELSE /\ pc' = "hair"
             /\ UNCHANGED <<iter, cancel, cancel_flag, procedural_map, procedurals>>
             /\ UNCHANGED SyncObjectVars
  /\ UNCHANGED DriverFrame

\* Lines 621-634: "Particle hair as separate object" and the cancel poll.
IterHair ==
  /\ pc = "hair"
  /\ LET b_instance == Instances[iter]
     IN IF SyncHair(b_instance)
          THEN Proceed(sync_object(Cur, iter, b_instance, TRUE, TRUE), "hair")
          ELSE Poll /\ UNCHANGED SyncObjectVars
  /\ UNCHANGED <<procedural_map, procedurals>>
  /\ UNCHANGED DriverFrame

\* The suspended sync_object call runs to its end, after the inline conversion
\* when there is one.
InlineEnd ==
  /\ pc \in {"self_geom", "hair_geom"}
  /\ LET st0 == [Cur EXCEPT !.geoms = Converted(geoms, inline),
                            !.inline = NoTask, !.ctx = NoCtx]
         st1 == IF ctx.kind = "full"
                  THEN FullSyncEnd(st0, Instances[ctx.inst], ctx.hair, ctx.object,
                                   ctx.object_updated)
                  ELSE st0
     IN Proceed(st1, IF pc = "self_geom" THEN "self" ELSE "hair")
  /\ UNCHANGED <<procedural_map, procedurals>>
  /\ UNCHANGED DriverFrame

\* A worker thread completes one task of the pool.
TaskDone ==
  /\ \E i \in 1..Len(geom_task_pool) :
       /\ geoms' = Converted(geoms, geom_task_pool[i])
       /\ geom_task_pool' = SubSeq(geom_task_pool, 1, i - 1)
                              \o SubSeq(geom_task_pool, i + 1, Len(geom_task_pool))
  /\ UNCHANGED <<scene, b_recalc, b_time, nsync, pc, caller, motion_time, iter, cancel,
                 cancel_flag, inline, ctx, object_map, object_used, objects, light_map,
                 geometry_map, procedural_map, particle_system_map, procedurals,
                 geometry_synced, geometry_motion_synced, motion_times, motion_todo, ran,
                 aou_log, prev_log, bg_light_synced, swept, pushed, base_cancelled>>

\* Line 637: geom_task_pool.wait_work() returns when no task is left.
WaitWorkReturns_NoWait == TRUE

WaitWorkReturns == geom_task_pool = <<>>

WaitWork ==
  /\ pc = "wait"
  /\ WaitWorkReturns
  /\ pc' = "post"
  /\ UNCHANGED <<scene, b_recalc, b_time, nsync, caller, motion_time, iter, cancel,
                 cancel_flag, geom_task_pool, inline, ctx, object_map, object_used,
                 objects, light_map, geometry_map, procedural_map, particle_system_map,
                 procedurals, geoms, geometry_synced, geometry_motion_synced,
                 motion_times, motion_todo, ran, aou_log, prev_log, bg_light_synced, swept,
                 pushed, base_cancelled>>

\* Line 641: if (!cancel && !motion)
DoPostSync_IgnoreCancel(cancelled, motion) == ~motion

DoPostSync(cancelled, motion) == ~cancelled /\ ~motion

\* Where sync_objects returns to.
ReturnTo(who) ==
  CASE who = "data" -> "motion"
    [] who = "pre" -> "motion_times"
    [] who = "loop" -> "motion_loop"

\* Lines 639-654: the end of sync_objects, and its return.
SyncObjectsEnd ==
  /\ pc = "post"
  /\ IF DoPostSync(cancel, Motion)
       THEN /\ bg_light_synced' = TRUE
            /\ light_map' = post_sync(light_map)
            /\ geometry_map' = post_sync(geometry_map)
            /\ geoms' = [g \in (DOMAIN geoms \cap geometry_map.used) |-> geoms[g]]
            /\ object_map' = object_post_sync_map(object_map, object_used)
            /\ objects' = object_post_sync_nodes(objects, object_used)
            /\ particle_system_map' = post_sync(particle_system_map)
            /\ procedural_map' = post_sync(procedural_map)
            /\ procedurals' = [f \in (DOMAIN procedurals \cap procedural_map.used) |->
                                 procedurals[f]]
            /\ swept' = TRUE
       ELSE UNCHANGED <<bg_light_synced, light_map, geometry_map, geoms, object_map,
                        objects, particle_system_map, procedural_map, procedurals, swept>>
  /\ geometry_motion_synced' = IF Motion THEN {} ELSE geometry_motion_synced
  /\ base_cancelled' = IF Motion THEN base_cancelled ELSE cancel
  /\ aou_log' = IF Motion THEN aou_log ELSE [aou_log EXCEPT !.cancelled = cancel]
  /\ pc' = ReturnTo(caller)
  /\ UNCHANGED <<scene, b_recalc, b_time, nsync, caller, motion_time, iter, cancel,
                 cancel_flag, geom_task_pool, inline, ctx, object_used, geometry_synced,
                 motion_times, motion_todo, ran, prev_log, pushed>>

\* ------------------------------------------------------------- sync_motion
\* Camera::motion_time(step) for each of the camera's motion steps.
CameraTimes(sc) ==
  {MotionTimeOf(sc.camera_motion_steps, s) : s \in 0..(sc.camera_motion_steps - 1)}

MotionVars ==
  <<scene, b_recalc, nsync, iter, cancel, cancel_flag, geom_task_pool, inline, ctx,
    object_map, object_used, objects, light_map, geometry_map, procedural_map,
    particle_system_map, procedurals, geoms, geometry_synced, geometry_motion_synced,
    aou_log, prev_log, bg_light_synced, swept, pushed, base_cancelled>>

\* Lines 664-697: sync_motion's entry; with the camera's shutter not centred the
\* host is moved to the shifted centre and the base pass runs again there.
SyncMotion ==
  /\ pc = "motion"
  /\ IF scene.need_motion = "MOTION_NONE"
       THEN /\ pc' = "idle"
            /\ UNCHANGED <<b_time, caller, motion_time, motion_times, motion_todo>>
     ELSE IF FrameCenterDelta(scene) # 0
       THEN /\ b_time' = FrameCenterDelta(scene)
            /\ motion_time' = 0
            /\ caller' = "pre"
            /\ pc' = "enter"
            /\ UNCHANGED <<motion_times, motion_todo>>
     ELSE /\ motion_times' = motion_times \cup CameraTimes(scene)
          /\ motion_todo' = motion_times'
          /\ pc' = "motion_loop"
          /\ UNCHANGED <<b_time, caller, motion_time>>
  /\ UNCHANGED ran
  /\ UNCHANGED MotionVars

\* Lines 699-706, reached from the base pass at the shifted centre.
SyncMotionTimes ==
  /\ pc = "motion_times"
  /\ motion_times' = motion_times \cup CameraTimes(scene)
  /\ motion_todo' = motion_times'
  /\ pc' = "motion_loop"
  /\ UNCHANGED <<b_time, caller, motion_time, ran>>
  /\ UNCHANGED MotionVars

\* Lines 708-709: foreach over the std::set visits the times in ascending
\* order; the next one is the least of those not yet visited.
NextRelativeTime_Greatest(todo) == CHOOSE t \in todo : \A u \in todo : u <= t

NextRelativeTime(todo) == CHOOSE t \in todo : \A u \in todo : t <= u

\* Lines 672-673: frame_center and subframe_center, the host's time when
\* sync_motion is entered; the times of the model are relative to it.
frame_center == 0

\* Lines 741-743: b_engine.frame_set(frame_center, subframe_center), the host's
\* time after the call.
RestoreCenter_Stay(center, time) == time

RestoreCenter(center, time) == center

\* Lines 708-743: one step of the iteration of motion_times in sorted order, and
\* the return to the centre frame after it.
SyncMotionNext ==
  /\ pc = "motion_loop"
  /\ IF motion_todo = {}
       THEN /\ b_time' = RestoreCenter(frame_center, b_time)
            /\ pc' = "idle"
            /\ UNCHANGED <<caller, motion_time, motion_todo, ran>>
     ELSE LET relative_time == NextRelativeTime(motion_todo)
          IN /\ motion_todo' = motion_todo \ {relative_time}
             /\ IF relative_time = 0
                  THEN UNCHANGED <<b_time, pc, caller, motion_time, ran>>
                  ELSE /\ b_time' = FrameCenterDelta(scene) + relative_time
                       /\ ran' = Append(ran, relative_time)
                       /\ motion_time' = relative_time
                       /\ caller' = "loop"
                       /\ pc' = "enter"
  /\ UNCHANGED motion_times
  /\ UNCHANGED MotionVars

Next ==
  \/ StartSync
  \/ SyncObjectsBegin
  \/ IterSelf
  \/ IterHair
  \/ InlineEnd
  \/ TaskDone
  \/ WaitWork
  \/ SyncObjectsEnd
  \/ SyncMotion
  \/ SyncMotionTimes
  \/ SyncMotionNext

Spec == Init /\ [][Next]_vars
\* ------------------------------------------------------------- properties
Calls(log) == {log.calls[i] : i \in 1..Len(log.calls)}

LoopPositions == {"self", "self_geom", "hair", "hair_geom"}

PassPositions == LoopPositions \cup {"wait", "post"}

\* The driving thread is inside a base pass that has begun.
InBasePass == ~Motion /\ pc \in PassPositions

InMotionPass == Motion /\ pc \in PassPositions

\* The last base pass that began has returned and was not cancelled.
BasePassCompleted == nsync > 0 /\ pc # "enter" /\ ~InBasePass /\ ~base_cancelled

\* The four fields of the Identity Key of an instance and variant.
Ident(b_instance, use_particle_hair) ==
  <<BParent(b_instance), PersistentId(b_instance), BObInstance(b_instance),
    use_particle_hair>>

\* C1: the object map holds at most one Object per Identity Key and one key per
\* Object, and two instances synced in the running base pass or the one before
\* it resolved to the same Object exactly when their four key fields are equal.
C1_OneEntityPerKey ==
  /\ \A p, q \in object_map : (p[1] = q[1]) <=> (p[2] = q[2])
  /\ \A c, d \in Calls(aou_log) \cup Calls(prev_log) :
       (c.object = d.object) <=> (c.ident = d.ident)

\* An object and its particle-hair variant were synced in one pass, as were
\* two instances of one object.
C1_Witness ==
  /\ \E c, d \in Calls(aou_log) :
       /\ c.ident[4] # d.ident[4]
       /\ c.ident[1] = d.ident[1] /\ c.ident[2] = d.ident[2] /\ c.ident[3] = d.ident[3]
  /\ \E c \in Calls(aou_log) : \E d \in Calls(prev_log) : c.ident = d.ident

\* C2: after a base pass that completed without cancellation the object map
\* holds exactly the keys that were passed to add_or_update in that pass.
C2_SweepCorrect ==
  BasePassCompleted =>
    ObjectKeys(object_map) = {c.key : c \in Calls(aou_log)}

\* A completed second base pass removed an Object of the pass before and kept another.
C2_Witness ==
  /\ BasePassCompleted
  /\ swept
  /\ \E c \in Calls(prev_log) : c.key \notin ObjectKeys(object_map)
  /\ \E c \in Calls(prev_log) : c.key \in ObjectKeys(object_map)

KeySeq(log) == [i \in 1..Len(log.calls) |-> log.calls[i].key]

\* C3: when two consecutive base passes of one unchanged scene pass the same
\* sequence of keys to add_or_update, each call of the second returns the
\* Object the first returned and reports no change.
C3_IdentityStable ==
  (aou_log.scene = prev_log.scene /\ KeySeq(aou_log) = KeySeq(prev_log)) =>
    \A i \in 1..Len(aou_log.calls) :
      /\ aou_log.calls[i].object = prev_log.calls[i].object
      /\ ~aou_log.calls[i].object_updated

C3_Witness ==
  /\ nsync = 2
  /\ pc = "idle"
  /\ aou_log.scene = prev_log.scene
  /\ KeySeq(aou_log) = KeySeq(prev_log)
  /\ Len(aou_log.calls) >= 2

\* The keys of the instances a scene enumerates, with the hair variant where
\* the instance's particle hair is synced.
EnumeratedKeys(sc) ==
  {Ident(sc.object_instances[i], FALSE) : i \in 1..Len(sc.object_instances)}
    \cup {Ident(sc.object_instances[i], TRUE) :
            i \in {j \in 1..Len(sc.object_instances) : SyncHair(sc.object_instances[j])}}

\* The keys of the instances of a scene that a base pass at time t brings to
\* an Object: shown in the viewport, not read from a cache file, geometry,
\* not culled and visible to some ray.
Exported(b_instance, t) ==
  /\ b_instance.visible_in_viewport
  /\ b_instance.type # "LIGHT"
  /\ b_instance.data # NULL
  /\ b_instance.culled # "always"
  /\ ~(b_instance.culled = "at_center" /\ t = 0)
  /\ b_instance.ray_visibility # {}
  /\ ~(b_instance.is_instance /\ b_instance.parent_ray_visibility = {})

ExportedKeys(sc, t) ==
  {Ident(sc.object_instances[i], FALSE) :
     i \in {j \in 1..Len(sc.object_instances) :
              /\ Exported(sc.object_instances[j], t)
              /\ sc.object_instances[j].show_self
              /\ sc.object_instances[j].cache_file = NULL}}
    \cup {Ident(sc.object_instances[i], TRUE) :
            i \in {j \in 1..Len(sc.object_instances) :
                     /\ Exported(sc.object_instances[j], t)
                     /\ SyncHair(sc.object_instances[j])}}

\* C4 as claimed: after a completed base pass every Object of the pass before
\* whose key is among the enumerated instances is still in the map.
C4_PersistsWhileEnumerated ==
  BasePassCompleted =>
    \A c \in Calls(prev_log) :
      c.key \in EnumeratedKeys(aou_log.scene) => c.key \in ObjectKeys(object_map)

\* C4 amended: after a completed base pass an Object of the pass before is
\* still in the map exactly when an enumerated instance with its key was
\* exported in the pass (shown in the viewport, not cached, geometry, not culled,
\* visible to some ray); it is removed exactly when none was.
C4_PersistsWhileExported ==
  BasePassCompleted =>
    \A c \in Calls(prev_log) :
      (c.key \in ObjectKeys(object_map)) <=> (c.key \in ExportedKeys(aou_log.scene, aou_log.time))

\* An Object whose instance is still enumerated, but culled, was removed, and
\* another one persisted.
C4_Witness ==
  /\ BasePassCompleted
  /\ swept
  /\ \E c \in Calls(prev_log) :
       c.key \in EnumeratedKeys(aou_log.scene) /\ c.key \notin ObjectKeys(object_map)
  /\ \E c \in Calls(prev_log) : c.key \in ObjectKeys(object_map)
\* The key sets of the identity maps and the nodes of the render scene.
KeySets ==
  <<ObjectKeys(object_map), DOMAIN objects, light_map.keys, procedural_map.keys,
    DOMAIN procedurals, geometry_map.keys, particle_system_map.keys>>

\* C5: no step of a motion sub-pass, from its entry to its return, creates or
\* removes an Object, a light or a procedural.
C5_MotionPassKeepsKeys ==
  [][(Motion /\ pc \in PassPositions \cup {"enter"}) => KeySets' = KeySets]_vars

\* A motion sub-pass has just looked up an instance whose key is not in the
\* map (it was culled in the base pass), in a scene with a cached object.
C5_Witness ==
  /\ InMotionPass
  /\ pc = "hair"
  /\ Instances[iter].show_self
  /\ SyncObjectState(Instances[iter], TRUE, scene.use_scene_lights, b_time) = "MotionUpdate"
  /\ object_find(object_map, Ident(Instances[iter], FALSE)) = 0
  /\ object_map # {}

\* What one step of the object loop of a motion sub-pass may do to the Objects:
\* only the Object of the instance's key changes, only when it has a motion
\* array with a slot for the pass's time, and only in that slot.
MotionStepFrame ==
  LET b_instance == Instances[iter]
      hair == pc \in {"hair", "hair_geom"}
      o == object_find(object_map, Ident(b_instance, hair))
      tfm == get_transform(b_instance, b_time)
      called == /\ b_instance.visible_in_viewport
                /\ SyncObjectState(b_instance, TRUE, scene.use_scene_lights, b_time)
                     = "MotionUpdate"
                /\ \/ pc = "self" /\ b_instance.show_self /\ b_instance.cache_file = NULL
                   \/ pc = "hair" /\ SyncHair(b_instance)
                /\ <<pc, iter>>' # <<pc, iter>>
  IN /\ DOMAIN objects' = DOMAIN objects
     /\ \A x \in DOMAIN objects :
          LET old == objects[x]
              new == objects'[x]
              slot == object_motion_step(old, motion_time) + 1
          IN IF x = o /\ use_motion(old) /\ slot >= 1
               THEN /\ new.tfm = old.tfm
                    /\ new.visibility = old.visibility
                    /\ new.use_holdout = old.use_holdout
                    /\ new.pass_id = old.pass_id
                    /\ new.attributes = old.attributes
                    /\ new.geometry = old.geometry
                    /\ new.name = old.name
                    /\ Len(new.motion) = Len(old.motion)
                    /\ \A k \in 1..Len(old.motion) :
                         k # slot => new.motion[k] = old.motion[k]
                    /\ new.motion[slot] = IF called THEN tfm ELSE old.motion[slot]
               ELSE new = old

\* C6: in a motion sub-pass a sync_object call writes the transform to slot
\* motion_step(motion_time) of the found Object's motion array and nothing
\* else of any Object; with no Object for the key, no motion array or no
\* matching slot it changes no Object.
C6_MotionWritesOnlySlot ==
  [][(Motion /\ pc \in LoopPositions) => MotionStepFrame]_vars

\* A motion sub-pass has just filled a slot other than the centre one.
C6_Witness ==
  /\ InMotionPass
  /\ pc = "hair"
  /\ LET o == object_find(object_map, Ident(Instances[iter], FALSE))
     IN /\ o # 0
        /\ use_motion(objects[o])
        /\ object_motion_step(objects[o], motion_time) >= 0
        /\ objects[o].motion[object_motion_step(objects[o], motion_time) + 1]
             = get_transform(Instances[iter], b_time)
        /\ objects[o].tfm # get_transform(Instances[iter], b_time)
        /\ \E k \in 1..Len(objects[o].motion) : objects[o].motion[k] = transform_empty

PoolTasks == {geom_task_pool[i] : i \in 1..Len(geom_task_pool)}

\* C7: no conversion started for an instanced source instance is ever in the
\* pool, so at most one such conversion, the driving thread's own, is in
\* progress at a time.
C7_InstancedNeverPooled ==
  /\ \A i \in 1..Len(geom_task_pool) : ~geom_task_pool[i].is_instance
  /\ inline.is_instance =>
       \A i \in 1..Len(geom_task_pool) :
         ~(geom_task_pool[i].is_instance /\ geom_task_pool[i].source = inline.source)

\* The driving thread converts an instance's geometry itself while the pool is at work.
C7_Witness ==
  /\ inline # NoTask
  /\ inline.is_instance
  /\ geom_task_pool # <<>>

\* C8: the conversions in progress, in the pool and on the driving thread,
\* have pairwise distinct geometry targets.
C8_OneConversionPerTarget ==
  /\ \A i, j \in 1..Len(geom_task_pool) :
       i # j => geom_task_pool[i].target # geom_task_pool[j].target
  /\ inline # NoTask =>
       \A i \in 1..Len(geom_task_pool) : geom_task_pool[i].target # inline.target

\* Two Objects synced in the running base pass share a Geometry whose
\* conversion is still in the pool.
C8_Witness ==
  /\ InBasePass
  /\ \E t \in PoolTasks :
       \E c, d \in Calls(aou_log) :
         /\ c.object # d.object
         /\ objects[c.object].geometry = t.target
         /\ objects[d.object].geometry = t.target

\* C9: a task is in the pool only while the driving thread is in the object
\* loop or in wait_work: none is left when the sweeps start, when sync_objects
\* returns, or between passes.
C9_PoolDrained ==
  pc \notin LoopPositions \cup {"wait"} => geom_task_pool = <<>>

\* The pass is past wait_work and had pushed tasks to the pool.
C9_Witness ==
  /\ pc = "post"
  /\ pushed > 0

\* Every key set of every map only grows in the step.
KeysKept ==
  /\ ObjectKeys(object_map) \subseteq ObjectKeys(object_map')
  /\ DOMAIN objects \subseteq DOMAIN objects'
  /\ light_map.keys \subseteq light_map'.keys
  /\ geometry_map.keys \subseteq geometry_map'.keys
  /\ procedural_map.keys \subseteq procedural_map'.keys
  /\ particle_system_map.keys \subseteq particle_system_map'.keys

\* C10: once the cancel poll has returned true the pass is out of its object
\* loop, leaves wait_work only with the pool empty, runs neither the
\* background light sync nor a sweep, and deletes nothing from any map.
C10_CancelledPass ==
  /\ [](cancel => /\ pc \notin LoopPositions
                  /\ ~bg_light_synced
                  /\ ~swept
                  /\ (pc # "wait" => geom_task_pool = <<>>))
  /\ [][cancel => KeysKept]_vars

\* A base pass cancelled before its last instance, with tasks pushed and an
\* Object left unseen, is past wait_work.
C10_Witness ==
  /\ cancel
  /\ ~Motion
  /\ pc = "post"
  /\ iter <= Len(Instances)
  /\ pushed > 0
  /\ object_used # DOMAIN objects

\* The step is a sync_object call of the object loop.
SyncObjectCalled ==
  /\ pc \in {"self", "hair"}
  /\ <<pc, iter>>' # <<pc, iter>>
  /\ LET b_instance == Instances[iter]
     IN /\ b_instance.visible_in_viewport
        /\ \/ pc = "self" /\ b_instance.show_self /\ b_instance.cache_file = NULL
           \/ pc = "hair" /\ SyncHair(b_instance)

\* The step starts a geometry conversion, in the pool or on the driving thread.
ConversionStarted ==
  \/ Len(geom_task_pool') > Len(geom_task_pool)
  \/ inline' # NoTask /\ inline = NoTask

\* C11: once the cancel flag is set, no step up to the end of the sync calls
\* sync_object or starts a geometry conversion, in the cancelled pass or in a
\* pass that sync_motion starts after it.
C11_NoWorkAfterCancel ==
  [][cancel_flag => ~SyncObjectCalled /\ ~ConversionStarted]_vars

\* A pass entered after the cancellation has called sync_object for an instance
\* that is synced at the pass's time.
C11_Witness ==
  /\ cancel_flag
  /\ ~cancel
  /\ pc \in {"hair", "self_geom"}
  /\ Instances[iter].visible_in_viewport
  /\ Instances[iter].show_self
  /\ Instances[iter].cache_file = NULL
  /\ SyncObjectState(Instances[iter], Motion, scene.use_scene_lights, b_time)
       \in {"MotionUpdate", "FullSync"}

\* C12: when the base pass before was cancelled, a base pass that completes
\* without cancellation leaves in the object map exactly the keys, and in the
\* scene exactly the Objects, passed to add_or_update in the completed pass.
C12_SelfCorrects ==
  (BasePassCompleted /\ prev_log.cancelled) =>
    /\ ObjectKeys(object_map) = {c.key : c \in Calls(aou_log)}
    /\ DOMAIN objects = {c.object : c \in Calls(aou_log)}

\* A completed base pass after a cancelled one has swept an Object that the
\* cancelled pass had synced, and kept another.
C12_Witness ==
  /\ BasePassCompleted
  /\ prev_log.cancelled
  /\ object_map # {}
  /\ \E c \in Calls(prev_log) : c.key \notin ObjectKeys(object_map)

\* A base pass has just returned without having been cancelled.
BasePassJustEnded == pc \in {"motion", "motion_times"} /\ ~aou_log.cancelled

\* The sample offsets motion_time(0..n-1) of an Object with n motion steps.
SampleOffsets(n) == {MotionTimeOf(n, s) : s \in 0..(n - 1)}

\* The motion steps sync_object computes for the instance of scene sc that a
\* logged call was made for.
StepsOf(sc, c) ==
  LET I == {i \in 1..Len(sc.object_instances) :
              Ident(sc.object_instances[i], c.ident[4]) = c.ident}
  IN IF I = {} \/ sc.need_motion = "MOTION_NONE" THEN 0
     ELSE ObjectMotionSteps(sc.need_motion, sc.object_instances[CHOOSE i \in I : TRUE])

\* The motion time set is empty when a base pass enters its object loop.
ClearedAtStart == (InBasePass /\ aou_log.calls = <<>>) => motion_times = {}

\* C13 as claimed: the set is emptied at the start of every base pass, and when
\* a base pass with motion enabled has completed it contains the sample offsets
\* of every Object fully synced in the pass.
C13_OffsetsOfEverySynced ==
  /\ ClearedAtStart
  /\ BasePassJustEnded =>
       \A c \in Calls(aou_log) : SampleOffsets(StepsOf(scene, c)) \subseteq motion_times

\* C13 amended: the set is emptied at the start of every base pass, and when a
\* base pass has completed it holds exactly the sample offsets of the Objects
\* that their full sync in the pass found changed.
C13_OffsetsOfChanged ==
  /\ ClearedAtStart
  /\ BasePassJustEnded =>
       motion_times = UNION {SampleOffsets(StepsOf(scene, c)) :
                               c \in {d \in Calls(aou_log) : d.changed}}

\* A completed base pass with motion blur found an Object with motion steps
\* unchanged, and its offsets are not in the set.
C13_Witness ==
  /\ BasePassJustEnded
  /\ scene.need_motion = "MOTION_BLUR"
  /\ \E c \in Calls(aou_log) :
       /\ ~c.changed
       /\ StepsOf(scene, c) > 0
       /\ ~(SampleOffsets(StepsOf(scene, c)) \subseteq motion_times)

\* C14: the motion sub-passes of a sync run at strictly ascending non-zero
\* offsets, all of them in the motion time set, and when sync_motion has
\* returned with motion needed they are exactly the non-zero offsets of the
\* set, which holds the camera's offsets.
C14_OnePassPerOffset ==
  /\ \A i \in 1..Len(ran) :
       /\ ran[i] # 0
       /\ ran[i] \in motion_times
       /\ \A j \in 1..(i - 1) : ran[j] < ran[i]
  /\ InMotionPass => (ran # <<>> /\ ran[Len(ran)] = motion_time)
  /\ (pc = "idle" /\ nsync > 0 /\ scene.need_motion # "MOTION_NONE") =>
       /\ {ran[i] : i \in 1..Len(ran)} = motion_times \ {0}
       /\ CameraTimes(scene) \subseteq motion_times

\* sync_motion has returned after more than two sub-passes, at the offsets of
\* a changed Object and at offsets that only the camera has, with 0 in the set.
C14_Witness ==
  /\ pc = "idle"
  /\ Len(ran) >= 3
  /\ 0 \in motion_times
  /\ \E c \in Calls(aou_log) :
       /\ c.changed
       /\ StepsOf(scene, c) > 0
       /\ \E t \in CameraTimes(scene) : t \notin SampleOffsets(StepsOf(scene, c))

\* The step is the end of a full sync: of a suspended call, or of one in which
\* sync_geometry started no conversion.
FullSyncCompleted ==
  /\ ~Motion
  /\ \/ pc \in {"self_geom", "hair_geom"} /\ ctx.kind = "full" /\ pc' # pc
     \/ /\ pc \in {"self", "hair"}
        /\ Len(aou_log'.calls) > Len(aou_log.calls)
        /\ ctx' = NoCtx

\* What the end of a full sync does to the Object, against the state before the
\* step: the four conditions of the change test, and the fields of the block.
FullSyncFrame ==
  LET b_instance == Instances[iter]
      hair == pc \in {"hair", "hair_geom"}
      c == aou_log'.calls[Len(aou_log'.calls)]
      old == IF c.object \in DOMAIN objects THEN objects[c.object] ELSE NewObject
      new == objects'[c.object]
      tfm == get_transform(b_instance, b_time)
      geometry == GeometryKey(b_instance, hair)
      geometry_is_modified ==
        IF inline # NoTask THEN TRUE
        ELSE geometry \in DOMAIN geoms /\ geoms[geometry].is_modified
      is_modified == \/ old.is_modified
                     \/ old.geometry # geometry
                     \/ old.use_holdout # UseHoldout(b_instance)
                     \/ old.visibility # Visibility(b_instance)
      attributes_changed == sync_object_attributes(b_instance, old.attributes).changed
      any == \/ is_modified
             \/ c.object_updated \/ attributes_changed
             \/ geometry_is_modified
             \/ tfm # old.tfm
  IN /\ c.changed <=> any
     /\ c.changed =>
          /\ new.name = b_instance.ob
          /\ new.pass_id = b_instance.pass_index
          /\ new.tfm = tfm
          /\ new.motion = MotionArray(StepsOf(scene, c), tfm)
     /\ ~c.changed =>
          /\ new.name = old.name
          /\ new.pass_id = old.pass_id
          /\ new.tfm = old.tfm
          /\ new.motion = old.motion
          /\ new.is_modified = old.is_modified

\* C15: a full sync rewrites name, pass id, transform and motion array and
\* tags the Object exactly when the Object is modified, add_or_update or the
\* attribute reconciler reported a change, the Geometry is modified or the
\* transform differs; otherwise it writes none of them and does not tag.
C15_RewriteIffChanged == [][FullSyncCompleted => FullSyncFrame]_vars

\* A base pass has fully synced one Object that was in the map and found it
\* changed, and another that it left as it was.
C15_Witness ==
  /\ ~Motion
  /\ ctx = NoCtx
  /\ \E c, d \in Calls(aou_log) :
       /\ c.changed /\ ~c.object_updated
       /\ ~d.changed

\* One visible mesh object that is no instance, and one light, with the scene's
\* lights shown.
MeshAndLight == Scene(<<iB, iL>>, "MOTION_NONE", TRUE, 0, "CENTER")

\* C16: a completed base pass over the mesh-and-light scene leaves one Object,
\* the mesh's, in the object map and the light in the light map only; the base
\* pass that follows a completed one over the same, unchanged scene finds no
\* Object changed, so it tags none.
C16_NoTagOnResync ==
  scene = MeshAndLight =>
    /\ BasePassCompleted =>
         /\ ObjectKeys(object_map) = {Ident(iB, FALSE)}
         /\ Cardinality(DOMAIN objects) = 1
         /\ light_map.keys = {Ident(iL, FALSE)}
    /\ (/\ aou_log.scene = MeshAndLight
        /\ prev_log.scene = MeshAndLight
        /\ ~prev_log.cancelled
        /\ ~Motion) =>
         \A c \in Calls(aou_log) : ~c.changed

\* The second of two consecutive syncs of the mesh-and-light scene has
\* completed its base pass, with one add_or_update call.
C16_Witness ==
  /\ scene = MeshAndLight
  /\ prev_log.scene = MeshAndLight
  /\ ~prev_log.cancelled
  /\ BasePassCompleted
  /\ Len(aou_log.calls) = 1
  /\ ~aou_log.calls[1].object_updated
  /\ Cardinality(object_map) = 1

\* What a sync_object call that ends before line 188 leaves alone: the object
\* map, the Objects, the Geometries and the conversions.
NoObjectWork ==
  UNCHANGED <<object_map, object_used, objects, geometry_map, geoms, geometry_synced,
              geometry_motion_synced, motion_times, particle_system_map,
              geom_task_pool, inline, ctx, aou_log, pushed>>

\* C17: a sync_object call for a light of a base pass does nothing but the
\* light sync, and that only with the scene's lights shown, whatever the
\* culling and visibility tests would say; a call for any other instance that
\* is not geometry, is culled or has a zero visibility mask changes nothing.
C17_SkipsBeforeAnyWork ==
  [][SyncObjectCalled =>
       LET b_instance == Instances[iter]
       IN IF ~Motion /\ object_is_light(b_instance)
            THEN /\ NoObjectWork
                 /\ light_map' = IF scene.use_scene_lights
                                   THEN map_add(light_map, Ident(b_instance, FALSE))
                                   ELSE light_map
          ELSE (\/ ~object_is_geometry(b_instance)
                \/ CullingTest(b_instance, b_time)
                \/ Visibility(b_instance) = {})
                 => NoObjectWork /\ light_map' = light_map]_vars

\* A base pass has synced a light that the culling test and the visibility
\* test would both have skipped.
C17_Witness ==
  /\ ~Motion
  /\ pc = "hair"
  /\ Instances[iter] = iL_far
  /\ Ident(iL_far, FALSE) \in light_map.used
  /\ Ident(iL_far, FALSE) \notin ObjectKeys(object_map)

\* ------------------------------------------------- visibility of one instance
\* The masks the host can hand over: every subset of the ray types, and for
\* the object also a bit outside PATH_RAY_ALL_VISIBILITY.
VisibilityInputs ==
  {[iB EXCEPT !.ray_visibility = vo, !.parent_ray_visibility = vp,
              !.is_holdout = ho, !.parent_holdout = hp,
              !.parent_indirect_only = io,
              !.is_instance = inst,
              !.instance_parent = IF inst THEN "P" ELSE NULL,
              !.instance_object = IF inst THEN "B" ELSE NULL,
              !.persistent_id = IF inst THEN 1 ELSE 0] :
     vo \in SUBSET (PATH_RAY_ALL_VISIBILITY \cup {"VOLUME_SCATTER"}),
     vp \in SUBSET PATH_RAY_ALL_VISIBILITY,
     ho \in BOOLEAN, hp \in BOOLEAN, io \in BOOLEAN, inst \in BOOLEAN}

\* The first base pass of a sync of a scene with one such instance is entered.
VisibilityInit ==
  /\ \E b_instance \in VisibilityInputs :
       scene = Scene(<<b_instance>>, "MOTION_NONE", TRUE, 0, "CENTER")
  /\ b_recalc = TRUE
  /\ b_time = 0
  /\ nsync = 1
  /\ pc = "enter"
  /\ caller = "data"
  /\ motion_time = 0
  /\ iter = 1
  /\ cancel = FALSE
  /\ cancel_flag = FALSE
  /\ geom_task_pool = <<>>
  /\ inline = NoTask
  /\ ctx = NoCtx
  /\ object_map = {}
  /\ object_used = {}
  /\ objects = <<>>
  /\ light_map = EmptyMap
  /\ geometry_map = EmptyMap
  /\ procedural_map = EmptyMap
  /\ particle_system_map = EmptyMap
  /\ procedurals = <<>>
  /\ geoms = <<>>
  /\ geometry_synced = {}
  /\ geometry_motion_synced = {}
  /\ motion_times = {}
  /\ motion_todo = {}
  /\ ran = <<>>
  /\ aou_log = NoLog
  /\ prev_log = NoLog
  /\ bg_light_synced = FALSE
  /\ swept = FALSE
  /\ pushed = 0
  /\ base_cancelled = FALSE

VisibilityNext ==
  \/ SyncObjectsBegin
  \/ IterSelf
  \/ IterHair
  \/ InlineEnd
  \/ TaskDone
  \/ WaitWork
  \/ SyncObjectsEnd
  \/ SyncMotion

VisibilitySpec == VisibilityInit /\ [][VisibilityNext]_vars

\* (V_o & ALL & V_p) with V_p applied when parent and object differ, and the
\* CAMERA bit cleared when indirect-only holds and holdout does not.
ExpectedMask(b_instance) ==
  LET H == b_instance.is_holdout \/ b_instance.parent_holdout
      I == b_instance.parent_indirect_only
      Vo == b_instance.ray_visibility \cap PATH_RAY_ALL_VISIBILITY
      Vp == IF b_instance.is_instance
              THEN b_instance.parent_ray_visibility ELSE PATH_RAY_ALL_VISIBILITY
  IN (Vo \cap Vp) \ (IF I /\ ~H THEN {PATH_RAY_CAMERA} ELSE {})

\* C18: once sync_object has been called for the instance, an instance with a
\* zero mask has no Object, no Geometry and no conversion, and the Object of
\* any other instance has, at the end of its full sync, the expected mask and
\* holdout flag; with V_o = V_p = ALL, no holdout and indirect-only the mask is
\* ALL without CAMERA.
C18_VisibilityMask ==
  LET b_instance == Instances[1]
      mask == ExpectedMask(b_instance)
  IN /\ (b_instance.ray_visibility = PATH_RAY_ALL_VISIBILITY
           /\ b_instance.parent_ray_visibility = PATH_RAY_ALL_VISIBILITY
           /\ ~b_instance.is_holdout /\ ~b_instance.parent_holdout
           /\ b_instance.parent_indirect_only)
          => mask = {"DIFFUSE", "GLOSSY", "SHADOW"}
     /\ pc \notin {"enter", "self"} =>
          IF mask = {}
            THEN /\ object_map = {} /\ objects = <<>> /\ geoms = <<>>
                 /\ geom_task_pool = <<>> /\ inline = NoTask
            ELSE /\ Cardinality(object_map) = 1
                 /\ ctx = NoCtx =>
                      \A o \in DOMAIN objects :
                        /\ objects[o].visibility = mask
                        /\ objects[o].use_holdout =
                             (b_instance.is_holdout \/ b_instance.parent_holdout)

\* The pass has synced an instance whose parent's mask lacks a bit and whose
\* indirect-only flag cleared the CAMERA bit, and it has skipped none.
C18_Witness ==
  /\ pc = "post"
  /\ Instances[1].is_instance
  /\ Instances[1].ray_visibility = PATH_RAY_ALL_VISIBILITY \cup {"VOLUME_SCATTER"}
  /\ Instances[1].parent_ray_visibility = {"CAMERA", "DIFFUSE", "SHADOW"}
  /\ \E o \in DOMAIN objects : objects[o].visibility = {"DIFFUSE", "SHADOW"}

\* ------------------------------------------------- attribute reconciliation
\* The sequences of length at most n over S without a repeated element.
InjectiveSeqs(S, n) ==
  {q \in UNION {[1..k -> S] : k \in 0..n} :
     \A i, j \in 1..Len(q) : i # j => q[i] # q[j]}

\* The needed attributes of a Geometry with a value resolved for each, and the
\* attribute vectors an Object can hold from earlier reconciliations.
AttributeRequests ==
  UNION {{[names |-> q, values |-> v] : v \in [1..Len(q) -> {1, 2}]} :
         q \in InjectiveSeqs({"col", "inst", "uv"}, MaxAttrs)}

StoredAttributes ==
  UNION {{[i \in 1..Len(q) |-> <<q[i], v[i]>>] : v \in [1..Len(q) -> {1, 2}]} :
         q \in InjectiveSeqs({"col", "inst", "old"}, MaxAttrs)}

\* One Object with a stored attribute vector, and one instance whose Geometry
\* needs some attributes.
AttributeInit ==
  /\ \E r \in AttributeRequests :
       scene = Scene(<<[iC EXCEPT !.needed_attributes = r.names, !.props = r.values]>>,
                     "MOTION_NONE", TRUE, 0, "CENTER")
  /\ \E stored \in StoredAttributes :
       objects = <<[NewObject EXCEPT !.attributes = stored]>>
  /\ b_recalc = FALSE
  /\ b_time = 0
  /\ nsync = 0
  /\ pc = "idle"
  /\ caller = "none"
  /\ motion_time = 0
  /\ iter = 1
  /\ cancel = FALSE
  /\ cancel_flag = FALSE
  /\ geom_task_pool = <<>>
  /\ inline = NoTask
  /\ ctx = NoCtx
  /\ object_map = {}
  /\ object_used = {}
  /\ light_map = EmptyMap
  /\ geometry_map = EmptyMap
  /\ procedural_map = EmptyMap
  /\ particle_system_map = EmptyMap
  /\ procedurals = <<>>
  /\ geoms = <<>>
  /\ geometry_synced = {}
  /\ geometry_motion_synced = {}
  /\ motion_times = {}
  /\ motion_todo = {}
  /\ ran = <<>>
  /\ aou_log = NoLog
  /\ prev_log = NoLog
  /\ bg_light_synced = FALSE
  /\ swept = FALSE
  /\ pushed = 0
  /\ base_cancelled = FALSE

\* sync_object_attributes(b_instance, object) on the Object; the log keeps the
\* vector it was given and what it returned.
Reconcile ==
  /\ nsync < MaxSyncs
  /\ LET r == sync_object_attributes(Instances[1], objects[1].attributes)
     IN /\ objects' = [objects EXCEPT ![1].attributes = r.attributes]
        /\ aou_log' = [aou_log EXCEPT !.calls =
                         Append(@, [before |-> objects[1].attributes,
                                    changed |-> r.changed])]
  /\ nsync' = nsync + 1
  /\ UNCHANGED <<scene, b_recalc, b_time, pc, caller, motion_time, iter, cancel,
                 cancel_flag, geom_task_pool, inline, ctx, object_map, object_used,
                 light_map, geometry_map, procedural_map, particle_system_map,
                 procedurals, geoms, geometry_synced, geometry_motion_synced,
                 motion_times, motion_todo, ran, prev_log, bg_light_synced, swept,
                 pushed, base_cancelled>>

AttributeSpec == AttributeInit /\ [][Reconcile]_vars

\* An attribute of the vector was removed, added or given another value by a
\* reconciliation with the instance's requests.
AttributeDiffers(before, b_instance) ==
  LET requests == b_instance.needed_attributes
      resolved == {i \in 1..Len(requests) : AttributeType(requests[i]) # "GEOMETRY"}
  IN \/ \E k \in 1..Len(before) :
          \A i \in 1..Len(requests) : requests[i] # before[k][1]
     \/ \E i \in resolved : \A k \in 1..Len(before) : before[k][1] # requests[i]
     \/ \E i \in resolved : \E k \in 1..Len(before) :
          before[k][1] = requests[i] /\ before[k][2] # b_instance.props[i]

\* C19: a reconciliation returns changed exactly when an attribute was removed,
\* added or had a different value, and one run again with the same requests
\* and values returns false and leaves the vector as it was.
C19_ReconcileIdempotent ==
  \A i \in 1..Len(aou_log.calls) :
    LET c == aou_log.calls[i]
        after == IF i < Len(aou_log.calls)
                   THEN aou_log.calls[i + 1].before ELSE objects[1].attributes
    IN /\ c.changed <=> AttributeDiffers(c.before, Instances[1])
       /\ i > 1 => (~c.changed /\ after = c.before)

\* A reconciliation that removed one attribute, rewrote another and added a
\* third has been run again.
C19_Witness ==
  /\ Len(aou_log.calls) > 1
  /\ aou_log.calls[1].changed
  /\ aou_log.calls[1].before = <<<<"old", 1>>, <<"col", 1>>>>
  /\ objects[1].attributes = <<<<"col", 2>>, <<"inst", 1>>>>

\* ------------------------------------------- own geometry before the hair
\* The conversions in flight: the tasks of the pool and the one the driving
\* thread runs itself.
InFlight ==
  {geom_task_pool[k] : k \in 1..Len(geom_task_pool)}
    \cup (IF inline = NoTask THEN {} ELSE {inline})

\* The conversion is of the own geometry (not the hair) of the source object
\* of b_instance.
OwnConversion(task, b_instance) ==
  /\ ~task.hair
  /\ task.source = BObInstance(b_instance)
  /\ task.is_instance = b_instance.is_instance

\* This step submits the hair conversion of the instance under the loop to the
\* pool.
HairTaskSubmitted ==
  /\ pc = "hair"
  /\ Len(geom_task_pool') = Len(geom_task_pool) + 1
  /\ geom_task_pool'[Len(geom_task_pool')].hair

\* C20: the own geometry conversion of an instance whose particle hair is
\* synced is never in the pool, and no conversion of its own geometry is in
\* flight when its hair conversion is submitted.
C20_OwnGeometryBeforeHair ==
  [][/\ \A j \in 1..Len(Instances) :
          SyncHair(Instances[j]) =>
            \A k \in 1..Len(geom_task_pool') :
              ~OwnConversion(geom_task_pool'[k], Instances[j])
     /\ HairTaskSubmitted =>
          \A task \in InFlight : ~OwnConversion(task, Instances[iter])]_vars

\* The hair conversion of A is in the pool after A's own geometry was
\* converted in this pass by the driving thread.
C20_Witness ==
  /\ \E k \in 1..Len(geom_task_pool) :
       /\ geom_task_pool[k].hair
       /\ geom_task_pool[k].source = BObInstance(iA)
       /\ ~geom_task_pool[k].is_instance
  /\ GeometryKey(iA, FALSE) \in geometry_synced
  /\ geoms[GeometryKey(iA, FALSE)].is_modified
  /\ pushed > 0
  /\ inline = NoTask

\* ------------------------------------------------ the motion array's slots
\* The instance of the scene of the log that the call was made for.
InstanceOf(log, c) ==
  log.scene.object_instances[
    CHOOSE i \in 1..Len(log.scene.object_instances) :
      Ident(log.scene.object_instances[i], c.ident[4]) = c.ident]

\* The log is of a base pass of the running sync, whose sub-passes are in ran.
LogOfThisSync == nsync > 0 /\ ~(pc = "enter" /\ caller = "data")

\* C21: the Object of a full sync that found it changed has a motion array of
\* as many slots as the pass computed motion steps, none when motion is not
\* needed; slot floor(N/2) holds the transform of that base pass, and any other
\* slot is the empty transform unless a motion sub-pass of its time has begun,
\* which leaves it empty or fills it with the transform at that time.
C21_MotionArrayShape ==
  LogOfThisSync =>
    \A c \in Calls(aou_log) :
      c.changed =>
        LET b_instance == InstanceOf(aou_log, c)
            N == StepsOf(aou_log.scene, c)
            motion == objects[c.object].motion
        IN /\ Len(motion) = N
           /\ aou_log.scene.need_motion = "MOTION_NONE" => motion = <<>>
           /\ \A step \in 0..(N - 1) :
                IF step = N \div 2
                  THEN motion[step + 1] = get_transform(b_instance, aou_log.time)
                ELSE \/ motion[step + 1] = transform_empty
                     \/ /\ \E k \in 1..Len(ran) : ran[k] = MotionTimeOf(N, step)
                        /\ motion[step + 1] =
                             get_transform(b_instance,
                                           FrameCenterDelta(aou_log.scene)
                                             + MotionTimeOf(N, step))

\* A changed Object with motion steps after one motion sub-pass: one slot
\* beside the centre is filled and another is still empty.
C21_Witness ==
  /\ pc = "motion_loop"
  /\ Len(ran) > 0
  /\ \E c \in Calls(aou_log) :
       /\ c.changed
       /\ LET motion == objects[c.object].motion
              N == Len(motion)
          IN /\ N > 2
             /\ motion[(N \div 2) + 1] # transform_empty
             /\ \E s, t \in (1..N) \ {(N \div 2) + 1} :
                  motion[s] # transform_empty /\ motion[t] = transform_empty

\* ------------------------------------------- the objects of a procedural
\* This step calls sync_procedural for the instance under the loop in a base
\* pass (lines 602-607).
SyncProceduralCalled ==
  /\ pc = "self"
  /\ pc' = "hair"
  /\ ~Motion
  /\ Instances[iter].visible_in_viewport
  /\ Instances[iter].show_self
  /\ Instances[iter].cache_file # NULL

\* The call returned at line 521: the file path of the procedural is not
\* modified.
ReturnedEarly ==
  /\ SyncProceduralCalled
  /\ ~procedurals'[Instances[iter].cache_file].filepath_is_modified

\* The object paths of the AlembicObjects of the procedural of a cache file.
ObjectPaths(procs, cache_file) ==
  {procs[cache_file].objects[k] : k \in 1..Len(procs[cache_file].objects)}

\* C22: when sync_procedural returns early because the file path is not
\* modified, the procedural holds an AlembicObject for the object path of the
\* source object of the call.
C22_EarlyReturnHasObject ==
  [][ReturnedEarly =>
       Instances[iter].ob \in ObjectPaths(procedurals', Instances[iter].cache_file)]_vars

\* A base pass has completed over a scene with two objects on one cache file,
\* and the procedural of the file, kept from the sync before, holds an
\* AlembicObject for one of them only.
C22_Witness ==
  /\ BasePassCompleted
  /\ \E i, j \in 1..Len(Instances) :
       /\ Instances[i].cache_file # NULL
       /\ Instances[j].cache_file = Instances[i].cache_file
       /\ Instances[i].cache_file \in DOMAIN procedurals
       /\ Instances[i].ob \in ObjectPaths(procedurals, Instances[i].cache_file)
       /\ Instances[j].ob \notin ObjectPaths(procedurals, Instances[i].cache_file)

\* --------------------------------------------- the host's time after a sync
\* This step is sync_motion's return.
SyncMotionReturns == pc \in {"motion", "motion_loop"} /\ pc' = "idle"

\* C23: sync_motion is entered at the centre time; with motion needed the
\* step of its return leaves the host at that time, whatever passes ran and
\* whether a poll returned true; with motion not needed it returns at once,
\* moving the host's time and running a pass never.
C23_ReturnsToCenter ==
  [][/\ pc = "motion" => b_time = frame_center
     /\ SyncMotionReturns =>
          IF scene.need_motion = "MOTION_NONE"
            THEN /\ pc = "motion"
                 /\ UNCHANGED <<b_time, caller, motion_time, motion_times, motion_todo,
                                ran>>
                 /\ UNCHANGED MotionVars
            ELSE b_time' = frame_center
     /\ (pc = "motion" /\ scene.need_motion = "MOTION_NONE") => SyncMotionReturns]_vars

\* sync_motion has returned after at least two motion sub-passes, in a sync in
\* which a poll returned true.
C23_Witness ==
  /\ pc = "idle"
  /\ nsync > 0
  /\ scene.need_motion # "MOTION_NONE"
  /\ Len(ran) > 1
  /\ cancel_flag
  /\ b_time = frame_center
====
